---- MODULE Spec2Model ----
(***************************************************************************)
(* Model of src/youtube_gemini/app.py: one run of the "분석 시작" button     *)
(* handler (lines 215-269), which calls recog_video (107-162), which calls *)
(* download_youtube (35-57), genai.upload_file, wait_for_file_active       *)
(* (59-84), model.generate_content and delete_file (86-105).               *)
(*                                                                         *)
(* Time: `now` is the value time.time() returns; it advances while the     *)
(* download runs and while time.sleep runs (one unit per Tick during the   *)
(* poll sleep, retry_delay units in the retry sleep); the other calls take *)
(* no time on this clock.  The backend changes the remote file's state on  *)
(* its own, at any moment, interleaved with the steps of the run.          *)
(***************************************************************************)
EXTENDS Integers, Sequences, FiniteSets, TLC

\* ---- bounds of the model ------------------------------------------------
MaxTimeout == 1
MaxInterval == 2
MaxRetries == 3
MaxRetryDelay == 1
MaxFrags == 2
MaxFetchTime == 0
MaxDeleteCalls == 4

\* ---- program constants --------------------------------------------------
\* File.State value the wait loop compares with (uploaded_file.state != 2)
STATE_ACTIVE == 2
\* first value of range(1, max_retries + 1)
FirstAttempt == 1


\* File.State values of the backend: 1 PROCESSING (pending), 2 ACTIVE, 10 FAILED
FileStates == {1, STATE_ACTIVE, 10}

\* text fragments (response.text) a stream may deliver: strings as sequences of characters
Fragments == {<<"a">>, <<"b", "c">>}

\* failure kinds of model.generate_content / of iterating the stream
OtherKinds == {"InvalidArgument", "DeadlineExceeded"}
GenFailures == {"ServiceUnavailable"} \cup OtherKinds

VARIABLES
  timeout, interval, max_retries, retry_delay,   \* parameters of the calls
  pc,            \* position of the run
  now,           \* time.time()
  start_time,    \* wait_for_file_active: start_time
  sleepLeft,     \* remaining units of the current time.sleep(interval)
  attempt,       \* recog_video: loop variable
  answer,        \* recog_video: answer (string, as a sequence of characters)
  err,           \* kind of the exception in flight / caught, "" when none
  retval,        \* what recog_video returned: "", "tuple" or "None"
  bound,         \* module-level file_path, uploaded_file, answer are bound (line 220)
  localExists,   \* the downloaded file exists on disk
  remoteCreated, \* genai.upload_file created the remote file
  remoteState,   \* state of the remote file at the backend
  remoteDeleted, \* the remote file has been deleted
  obsState,      \* uploaded_file.state of the local file object
  rendered,      \* st.video(file_path) / answer box have been rendered
  shownErr,      \* st.error(...) of the handler's except block
  \* ---- history (observations of the run, not program state) ----
  hist

vars == <<timeout, interval, max_retries, retry_delay, pc, now, start_time, sleepLeft,
          attempt, answer, err, retval, bound, localExists, remoteCreated, remoteState,
          remoteDeleted, obsState, rendered, shownErr, hist>>

params == <<timeout, interval, max_retries, retry_delay>>
remote == <<remoteCreated, remoteState, remoteDeleted>>

\* history record: counters and observations used to state the properties
HistInit ==
  [ downloads |-> 0, uploads |-> 0,
    polls |-> 0, lastPoll |-> 0, pollGaps |-> {},
    waitOutcome |-> "none", waitElapsed |-> 0, activeAt |-> -1, failedAt |-> -1,
    genRequests |-> 0, reqStates |-> {}, overloads |-> 0, sleeps |-> 0, slept |-> 0,
    arrived |-> <<>>, outcome |-> "none", errStage |-> "none", origKind |-> "",
    delCalls |-> 0, localDelAttempts |-> 0, remoteDelAttempts |-> 0, delFailed |-> FALSE,
    delReturned |-> 0, failedFrags |-> FALSE,
    renderedFromFile |-> FALSE, order |-> <<>> ]

Init ==
  /\ timeout \in 0..MaxTimeout
  /\ interval \in 1..MaxInterval
  /\ max_retries \in 0..MaxRetries
  /\ retry_delay \in 1..MaxRetryDelay
  /\ pc = "download"
  /\ now = 0
  /\ start_time = 0
  /\ sleepLeft = 0
  /\ attempt = 0
  /\ answer = <<>>
  /\ err = ""
  /\ retval = ""
  /\ bound = FALSE
  /\ localExists = FALSE
  /\ remoteCreated = FALSE
  /\ remoteState = 1
  /\ remoteDeleted = FALSE
  /\ obsState = 1
  /\ rendered = FALSE
  /\ shownErr = ""
  /\ hist = HistInit

\* ---- download_youtube (lines 35-57) ------------------------------------
\* stream.download wrote the file and returned its path; d is the time it took
DownloadOk(d) ==
  /\ pc = "download"
  /\ now' = now + d
  /\ localExists' = TRUE
  /\ pc' = "upload"
  /\ hist' = [hist EXCEPT !.downloads = @ + 1, !.order = Append(@, "download")]
  /\ UNCHANGED <<params, start_time, sleepLeft, attempt, answer, err, retval, bound,
                 remote, obsState, rendered, shownErr>>

\* YouTube(url) / get_highest_resolution / download raised: logged and re-raised (56-57)
DownloadFail(d) ==
  /\ pc = "download"
  /\ now' = now + d
  /\ err' = "DownloadError"
  /\ pc' = "raised"
  /\ hist' = [hist EXCEPT !.downloads = @ + 1, !.errStage = "download",
                          !.order = Append(@, "download")]
  /\ UNCHANGED <<params, start_time, sleepLeft, attempt, answer, retval, bound,
                 localExists, remote, obsState, rendered, shownErr>>

\* ---- genai.upload_file (line 133), entry of wait_for_file_active (74-75) -
\* the backend created the file and answered with its state s
UploadOk(s) ==
  /\ pc = "upload"
  /\ remoteCreated' = TRUE
  /\ remoteState' = s
  /\ remoteDeleted' = FALSE
  /\ obsState' = s
  /\ start_time' = now
  /\ pc' = "wait"
  /\ hist' = [hist EXCEPT !.uploads = @ + 1, !.lastPoll = now,
                          !.activeAt = IF s = STATE_ACTIVE THEN now ELSE @,
                          !.failedAt = IF s = 10 THEN now ELSE @,
                          !.order = Append(Append(@, "upload"), "wait")]
  /\ UNCHANGED <<params, now, sleepLeft, attempt, answer, err, retval, bound,
                 localExists, rendered, shownErr>>

UploadFail ==
  /\ pc = "upload"
  /\ err' = "UploadError"
  /\ pc' = "raised"
  /\ hist' = [hist EXCEPT !.uploads = @ + 1, !.errStage = "upload",
                          !.order = Append(@, "upload")]
  /\ UNCHANGED <<params, now, start_time, sleepLeft, attempt, answer, retval, bound,
                 localExists, remote, obsState, rendered, shownErr>>

\* ---- the backend (state transitions are externally driven) -------------
BackendActivate ==
  /\ remoteCreated /\ ~remoteDeleted /\ remoteState = 1
  /\ remoteState' = STATE_ACTIVE
  /\ hist' = [hist EXCEPT !.activeAt = now]
  /\ UNCHANGED <<params, pc, now, start_time, sleepLeft, attempt, answer, err, retval,
                 bound, localExists, remoteCreated, remoteDeleted, obsState, rendered,
                 shownErr>>

BackendFail ==
  /\ remoteCreated /\ ~remoteDeleted /\ remoteState = 1
  /\ remoteState' = 10
  /\ hist' = [hist EXCEPT !.failedAt = now]
  /\ UNCHANGED <<params, pc, now, start_time, sleepLeft, attempt, answer, err, retval,
                 bound, localExists, remoteCreated, remoteDeleted, obsState, rendered,
                 shownErr>>

\* ---- wait_for_file_active (lines 59-84) --------------------------------
\* variant: polls only while the file is still being processed
KeepsPolling_PendingOnly(s) == s = 1

\* line 76: while uploaded_file.state != 2
KeepsPolling(s) == s # STATE_ACTIVE

\* variant: elapsed >= timeout
TimedOut_Inclusive(elapsed, t) == elapsed >= t

\* variant: the elapsed time is never compared with the timeout
TimedOut_Never(elapsed, t) == FALSE

\* line 78: if elapsed > timeout
TimedOut(elapsed, t) == elapsed > t

\* lines 76, 83-84: the loop condition is false, the file object is returned;
\* recog_video goes on to its retry loop (lines 135-137)
WaitReturn ==
  /\ pc = "wait"
  /\ ~KeepsPolling(obsState)
  /\ attempt' = FirstAttempt
  /\ pc' = "loop"
  /\ hist' = [hist EXCEPT !.waitOutcome = "returned", !.waitElapsed = now - start_time]
  /\ UNCHANGED <<params, now, start_time, sleepLeft, answer, err, retval, bound,
                 localExists, remote, obsState, rendered, shownErr>>

\* variant: a FAILED file ends the wait at once
WaitTimeout_FailFast ==
  /\ pc = "wait"
  /\ KeepsPolling(obsState)
  /\ TimedOut(now - start_time, timeout) \/ obsState = 10
  /\ err' = "TimeoutError"
  /\ pc' = "raised"
  /\ hist' = [hist EXCEPT !.waitOutcome = "timeout", !.waitElapsed = now - start_time,
                          !.errStage = "wait"]
  /\ UNCHANGED <<params, now, start_time, sleepLeft, attempt, answer, retval, bound,
                 localExists, remote, obsState, rendered, shownErr>>

\* lines 77-80: elapsed > timeout, TimeoutError
WaitTimeout ==
  /\ pc = "wait"
  /\ KeepsPolling(obsState)
  /\ TimedOut(now - start_time, timeout)
  /\ err' = "TimeoutError"
  /\ pc' = "raised"
  /\ hist' = [hist EXCEPT !.waitOutcome = "timeout", !.waitElapsed = now - start_time,
                          !.errStage = "wait"]
  /\ UNCHANGED <<params, now, start_time, sleepLeft, attempt, answer, retval, bound,
                 localExists, remote, obsState, rendered, shownErr>>

\* lines 77-81: not timed out, time.sleep(interval) begins
WaitSleep ==
  /\ pc = "wait"
  /\ KeepsPolling(obsState)
  /\ ~TimedOut(now - start_time, timeout)
  /\ sleepLeft' = interval
  /\ pc' = "poll_sleep"
  /\ UNCHANGED <<params, now, start_time, attempt, answer, err, retval, bound,
                 localExists, remote, obsState, rendered, shownErr, hist>>

\* one unit of time.sleep(interval) passes
Tick ==
  /\ pc = "poll_sleep"
  /\ sleepLeft > 0
  /\ now' = now + 1
  /\ sleepLeft' = sleepLeft - 1
  /\ UNCHANGED <<params, pc, start_time, attempt, answer, err, retval, bound,
                 localExists, remote, obsState, rendered, shownErr, hist>>

\* line 82: uploaded_file = genai.get_file(uploaded_file.name)
GetFile ==
  /\ pc = "poll_sleep"
  /\ sleepLeft = 0
  /\ obsState' = remoteState
  /\ pc' = "wait"
  /\ hist' = [hist EXCEPT !.polls = @ + 1, !.pollGaps = @ \cup {now - hist.lastPoll},
                          !.lastPoll = now]
  /\ UNCHANGED <<params, now, start_time, sleepLeft, attempt, answer, err, retval, bound,
                 localExists, remote, rendered, shownErr>>

\* variant: one try block around both deletions, so a failing os.remove skips the remote one
delete_file_OneTry(lf, rf, h) ==
  LET localTried == localExists
      localGone  == localTried /\ ~lf
      remoteTried == ~(localTried /\ lf)
      remoteGone == remoteTried /\ ~remoteDeleted /\ ~rf
  IN [ localExists   |-> localExists /\ ~localGone,
       remoteDeleted |-> remoteDeleted \/ remoteGone,
       hist |-> [h EXCEPT !.delCalls = @ + 1,
                          !.localDelAttempts = IF localTried THEN @ + 1 ELSE @,
                          !.remoteDelAttempts = IF remoteTried THEN @ + 1 ELSE @,
                          !.delFailed = @ \/ (localTried /\ ~localGone) \/ ~remoteGone,
                          !.delReturned = @ + 1,
                          !.order = Append(@, "cleanup")] ]

\* variant: no try block around uploaded_file.delete(), so its failure leaves delete_file
\* as an exception
delete_file_RemoteRaises(lf, rf, h) ==
  LET localTried == localExists
      localGone  == localTried /\ ~lf
      remoteGone == ~remoteDeleted /\ ~rf
  IN [ localExists   |-> localExists /\ ~localGone,
       remoteDeleted |-> remoteDeleted \/ remoteGone,
       hist |-> [h EXCEPT !.delCalls = @ + 1,
                          !.localDelAttempts = IF localTried THEN @ + 1 ELSE @,
                          !.remoteDelAttempts = @ + 1,
                          !.delFailed = @ \/ (localTried /\ ~localGone) \/ ~remoteGone,
                          !.delReturned = IF remoteGone THEN @ + 1 ELSE @,
                          !.order = Append(@, "cleanup")] ]

\* variant: os.remove without the os.path.exists test
delete_file_NoExistsTest(lf, rf, h) ==
  LET localGone  == localExists /\ ~lf
      remoteGone == ~remoteDeleted /\ ~rf
  IN [ localExists   |-> localExists /\ ~localGone,
       remoteDeleted |-> remoteDeleted \/ remoteGone,
       hist |-> [h EXCEPT !.delCalls = @ + 1,
                          !.localDelAttempts = @ + 1,
                          !.remoteDelAttempts = @ + 1,
                          !.delFailed = @ \/ ~localGone \/ ~remoteGone,
                          !.delReturned = @ + 1,
                          !.order = Append(@, "cleanup")] ]

\* ---- delete_file (lines 86-105) ----------------------------------------
\* The state after delete_file(file_path, uploaded_file), as a record of the new
\* localExists, remoteDeleted and history h.  lf: os.remove raises; rf: the
\* backend refuses uploaded_file.delete().  Both failures are only logged.
delete_file(lf, rf, h) ==
  LET localTried == localExists                    \* line 95: os.path.exists
      localGone  == localTried /\ ~lf              \* line 96: os.remove
      remoteGone == ~remoteDeleted /\ ~rf          \* line 102: uploaded_file.delete()
  IN [ localExists   |-> localExists /\ ~localGone,
       remoteDeleted |-> remoteDeleted \/ remoteGone,
       hist |-> [h EXCEPT !.delCalls = @ + 1,
                          !.localDelAttempts = IF localTried THEN @ + 1 ELSE @,
                          !.remoteDelAttempts = @ + 1,
                          !.delFailed = @ \/ (localTried /\ ~localGone) \/ ~remoteGone,
                          !.delReturned = @ + 1,
                          !.order = Append(@, "cleanup")] ]

\* ---- recog_video: the retry loop (lines 137-162) -----------------------
\* line 137: for attempt in range(1, max_retries + 1) has a next value
HasAttempt(a, m) == a <= m

\* variant: attempt <= max_retries
CanRetry_Inclusive(a, m) == a <= m

\* line 152: if attempt < max_retries
CanRetry(a, m) == a < m

\* line 158: raise RuntimeError(...) from e
ExhaustedKind(k) == "RuntimeError"

\* variant: every failure is wrapped in RuntimeError
ReraisedKind_Translated(k) == "RuntimeError"

\* line 162: raise
ReraisedKind(k) == k

\* the history after one more model.generate_content call has been issued (140-144)
Requested(h) ==
  [h EXCEPT !.genRequests = @ + 1,
            !.reqStates = @ \cup {[state |-> remoteState, obs |-> obsState,
                                   created |-> remoteCreated, deleted |-> remoteDeleted]},
            !.arrived = <<>>,
            !.order = Append(@, "generate")]

\* variant: the overload handler cleans up before every retry, not only after the last one
HandleGenError_CleansBeforeRetry(k, lf, rf, h) ==
  LET d == delete_file(lf, rf, h)
      over == k = "ServiceUnavailable"
  IN /\ localExists' = d.localExists
     /\ remoteDeleted' = d.remoteDeleted
     /\ IF over /\ CanRetry(attempt, max_retries)
        THEN /\ pc' = "retry_sleep"
             /\ hist' = [d.hist EXCEPT !.overloads = @ + 1, !.sleeps = @ + 1,
                                      !.arrived = <<>>]
             /\ UNCHANGED <<err, answer>>
        ELSE /\ err' = IF over THEN ExhaustedKind(k) ELSE ReraisedKind(k)
             /\ answer' = <<>>
             /\ pc' = "raised"
             /\ hist' = [d.hist EXCEPT !.overloads = IF over THEN @ + 1 ELSE @,
                                      !.arrived = <<>>,
                                      !.origKind = k,
                                      !.errStage = "inference",
                                      !.outcome = IF over THEN "OVERLOADED_EXHAUSTED"
                                                          ELSE "FAILED_OTHER"]

\* lines 150-162: the two except clauses, for a failure of kind k of the current attempt
HandleGenError(k, lf, rf, h) ==
  IF k = "ServiceUnavailable" /\ CanRetry(attempt, max_retries)
  THEN \* lines 151-154: warn and sleep
       /\ pc' = "retry_sleep"
       /\ hist' = [h EXCEPT !.overloads = @ + 1, !.sleeps = @ + 1, !.arrived = <<>>]
       /\ UNCHANGED <<err, answer, localExists, remoteDeleted>>
  ELSE \* lines 156-158 (overload on the last attempt), 160-162 (any other kind)
       LET d == delete_file(lf, rf, h)
           over == k = "ServiceUnavailable"
       IN /\ localExists' = d.localExists
          /\ remoteDeleted' = d.remoteDeleted
          /\ err' = IF over THEN ExhaustedKind(k) ELSE ReraisedKind(k)
          /\ answer' = <<>>       \* the frame of recog_video, with its answer, is gone
          /\ pc' = "raised"
          /\ hist' = [d.hist EXCEPT !.overloads = IF over THEN @ + 1 ELSE @,
                                   !.arrived = <<>>,
                                   !.origKind = k,
                                   !.errStage = "inference",
                                   !.outcome = IF over THEN "OVERLOADED_EXHAUSTED"
                                                       ELSE "FAILED_OTHER"]

\* variant: answer = "" sits before the for loop, so a retry goes on with the old text
GenOpen_KeepsAnswer ==
  /\ pc = "loop"
  /\ HasAttempt(attempt, max_retries)
  /\ pc' = "stream"
  /\ hist' = Requested(hist)
  /\ UNCHANGED <<params, now, start_time, sleepLeft, attempt, answer, err, retval, bound,
                 localExists, remote, obsState, rendered, shownErr>>

\* lines 139-145: generate_content returned the stream; answer = ""
GenOpen ==
  /\ pc = "loop"
  /\ HasAttempt(attempt, max_retries)
  /\ answer' = <<>>
  /\ pc' = "stream"
  /\ hist' = Requested(hist)
  /\ UNCHANGED <<params, now, start_time, sleepLeft, attempt, err, retval, bound,
                 localExists, remote, obsState, rendered, shownErr>>

\* lines 140-144: generate_content itself raised k
GenRaise(k, lf, rf) ==
  /\ pc = "loop"
  /\ HasAttempt(attempt, max_retries)
  /\ HandleGenError(k, lf, rf, Requested(hist))
  /\ UNCHANGED <<params, now, start_time, sleepLeft, attempt, retval, bound,
                 remoteCreated, remoteState, obsState, rendered, shownErr>>

\* variant: answer = response.text + answer
StreamChunk_Prepend(f) ==
  /\ pc = "stream"
  /\ Len(hist.arrived) < MaxFrags
  /\ answer' = f \o answer
  /\ hist' = [hist EXCEPT !.arrived = Append(@, f)]
  /\ UNCHANGED <<params, pc, now, start_time, sleepLeft, attempt, err, retval, bound,
                 localExists, remote, obsState, rendered, shownErr>>

\* lines 146-147: the next response arrived; answer += response.text
StreamChunk(f) ==
  /\ pc = "stream"
  /\ Len(hist.arrived) < MaxFrags
  /\ answer' = answer \o f
  /\ hist' = [hist EXCEPT !.arrived = Append(@, f)]
  /\ UNCHANGED <<params, pc, now, start_time, sleepLeft, attempt, err, retval, bound,
                 localExists, remote, obsState, rendered, shownErr>>

\* variant: recog_video deletes the file and the upload before it returns, as its error
\* paths do
StreamEnd_CleansUp ==
  /\ pc = "stream"
  /\ retval' = "tuple"
  /\ pc' = "returned"
  /\ \E lf \in BOOLEAN, rf \in BOOLEAN :
        LET d == delete_file(lf, rf, hist)
        IN /\ localExists' = d.localExists
           /\ remoteDeleted' = d.remoteDeleted
           /\ hist' = [d.hist EXCEPT !.outcome = "SUCCEEDED"]
  /\ UNCHANGED <<params, now, start_time, sleepLeft, attempt, answer, err, bound,
                 remoteCreated, remoteState, obsState, rendered, shownErr>>

\* variant: the return statement sits after the for loop, so the loop goes on
StreamEnd_ReturnAfterLoop ==
  /\ pc = "stream"
  /\ attempt' = attempt + 1
  /\ pc' = "loop"
  /\ hist' = [hist EXCEPT !.outcome = "SUCCEEDED"]
  /\ UNCHANGED <<params, now, start_time, sleepLeft, answer, err, retval, bound,
                 localExists, remote, obsState, rendered, shownErr>>

\* lines 146-149: the stream ended; return file_path, uploaded_file, answer
StreamEnd ==
  /\ pc = "stream"
  /\ retval' = "tuple"
  /\ pc' = "returned"
  /\ hist' = [hist EXCEPT !.outcome = "SUCCEEDED"]
  /\ UNCHANGED <<params, now, start_time, sleepLeft, attempt, answer, err, bound,
                 localExists, remote, obsState, rendered, shownErr>>

\* lines 146-147: iterating the stream (or response.text) raised k
StreamRaise(k, lf, rf) ==
  /\ pc = "stream"
  /\ HandleGenError(k, lf, rf, [hist EXCEPT !.failedFrags = @ \/ hist.arrived # <<>>])
  /\ UNCHANGED <<params, now, start_time, sleepLeft, attempt, retval, bound,
                 remoteCreated, remoteState, obsState, rendered, shownErr>>

\* line 154: time.sleep(retry_delay) is over; the for loop takes its next value
RetryWake ==
  /\ pc = "retry_sleep"
  /\ now' = now + retry_delay
  /\ attempt' = attempt + 1
  /\ pc' = "loop"
  /\ hist' = [hist EXCEPT !.slept = @ + retry_delay]
  /\ UNCHANGED <<params, start_time, sleepLeft, answer, err, retval, bound,
                 localExists, remote, obsState, rendered, shownErr>>

\* line 137: range is exhausted; the function ends without a return statement (None)
LoopExhausted ==
  /\ pc = "loop"
  /\ ~HasAttempt(attempt, max_retries)
  /\ retval' = "None"
  /\ pc' = "returned"
  /\ hist' = [hist EXCEPT !.outcome = "FELL_THROUGH"]
  /\ UNCHANGED <<params, now, start_time, sleepLeft, attempt, answer, err, bound,
                 localExists, remote, obsState, rendered, shownErr>>

\* ---- the button handler (lines 215-269) --------------------------------
\* line 220: file_path, uploaded_file, answer = recog_video(...) binds the three names
UnpackTuple ==
  /\ pc = "returned"
  /\ retval = "tuple"
  /\ bound' = TRUE
  /\ pc' = "render"
  /\ UNCHANGED <<params, now, start_time, sleepLeft, attempt, answer, err, retval,
                 localExists, remote, obsState, rendered, shownErr, hist>>

\* line 220: None cannot be unpacked (TypeError); nothing is bound
UnpackNone ==
  /\ pc = "returned"
  /\ retval = "None"
  /\ err' = "TypeError"
  /\ pc' = "raised"
  /\ hist' = [hist EXCEPT !.errStage = "unpack"]
  /\ UNCHANGED <<params, now, start_time, sleepLeft, attempt, answer, retval, bound,
                 localExists, remote, obsState, rendered, shownErr>>

\* lines 222-257: st.video(file_path) and the answer box
Render ==
  /\ pc = "render"
  /\ rendered' = TRUE
  /\ pc' = "finally"
  /\ hist' = [hist EXCEPT !.renderedFromFile = localExists, !.order = Append(@, "render")]
  /\ UNCHANGED <<params, now, start_time, sleepLeft, attempt, answer, err, retval, bound,
                 localExists, remote, obsState, shownErr>>

\* lines 259-261: except Exception as e: st.error(...)
Except ==
  /\ pc = "raised"
  /\ shownErr' = err
  /\ pc' = "finally"
  /\ UNCHANGED <<params, now, start_time, sleepLeft, attempt, answer, err, retval, bound,
                 localExists, remote, obsState, rendered, hist>>

\* lines 263-267: delete_file(file_path, uploaded_file) with the names bound at line 220
FinallyCleanup(lf, rf) ==
  /\ pc = "finally"
  /\ bound
  /\ LET d == delete_file(lf, rf, hist)
     IN /\ localExists' = d.localExists
        /\ remoteDeleted' = d.remoteDeleted
        /\ hist' = d.hist
  /\ pc' = "done"
  /\ UNCHANGED <<params, now, start_time, sleepLeft, attempt, answer, err, retval, bound,
                 remoteCreated, remoteState, obsState, rendered, shownErr>>

\* variant: file_path and uploaded_file start as None before the try block, so the
\* finally block calls delete_file also when nothing was created
FinallyNameError_DeletesNone ==
  /\ pc = "finally"
  /\ ~bound
  /\ LET d == delete_file(FALSE, ~remoteCreated, hist)
     IN /\ localExists' = d.localExists
        /\ remoteDeleted' = d.remoteDeleted
        /\ hist' = d.hist
  /\ pc' = "done"
  /\ UNCHANGED <<params, now, start_time, sleepLeft, attempt, answer, err, retval, bound,
                 remoteCreated, remoteState, obsState, rendered, shownErr>>

\* lines 264-269: file_path is not bound (recog_video raised before line 220 assigned):
\* evaluating the arguments raises NameError, which line 268 catches; delete_file is not called
FinallyNameError ==
  /\ pc = "finally"
  /\ ~bound
  /\ pc' = "done"
  /\ UNCHANGED <<params, now, start_time, sleepLeft, attempt, answer, err, retval, bound,
                 localExists, remote, obsState, rendered, shownErr, hist>>

Next ==
  \/ \E d \in 0..MaxFetchTime : DownloadOk(d)
  \/ \E d \in 0..MaxFetchTime : DownloadFail(d)
  \/ \E s \in FileStates : UploadOk(s)
  \/ UploadFail
  \/ BackendActivate
  \/ BackendFail
  \/ WaitReturn
  \/ WaitTimeout
  \/ WaitSleep
  \/ Tick
  \/ GetFile
  \/ GenOpen
  \/ \E k \in GenFailures, lf \in BOOLEAN, rf \in BOOLEAN : GenRaise(k, lf, rf)
  \/ \E f \in Fragments : StreamChunk(f)
  \/ StreamEnd
  \/ \E k \in GenFailures, lf \in BOOLEAN, rf \in BOOLEAN : StreamRaise(k, lf, rf)
  \/ RetryWake
  \/ LoopExhausted
  \/ UnpackTuple
  \/ UnpackNone
  \/ Render
  \/ Except
  \/ \E lf \in BOOLEAN, rf \in BOOLEAN : FinallyCleanup(lf, rf)
  \/ FinallyNameError

Spec == Init /\ [][Next]_vars

\* the steps of the run itself (the script is one thread: each blocking call returns or
\* fails, each sleep ends, each stream ends), without the backend's own transitions
RunStep ==
  \/ \E d \in 0..MaxFetchTime : DownloadOk(d) \/ DownloadFail(d)
  \/ \E s \in FileStates : UploadOk(s)
  \/ UploadFail
  \/ WaitReturn \/ WaitTimeout \/ WaitSleep \/ Tick \/ GetFile
  \/ GenOpen
  \/ \E k \in GenFailures, lf \in BOOLEAN, rf \in BOOLEAN :
        GenRaise(k, lf, rf) \/ StreamRaise(k, lf, rf)
  \/ \E f \in Fragments : StreamChunk(f)
  \/ StreamEnd
  \/ RetryWake \/ LoopExhausted
  \/ UnpackTuple \/ UnpackNone \/ Render \/ Except
  \/ \E lf \in BOOLEAN, rf \in BOOLEAN : FinallyCleanup(lf, rf)
  \/ FinallyNameError

\* the run keeps taking its next step as long as it has one
FairSpec == Init /\ [][Next]_vars /\ WF_vars(RunStep)

\* ---- delete_file called on its own (lines 86-105) -----------------------
\* delete_file(file_path, uploaded_file) for a path whose file exists or not and an
\* uploaded file, in any state, that is still there or already deleted
InitCleanup ==
  /\ timeout = 0 /\ interval = 1 /\ max_retries = 0 /\ retry_delay = 1
  /\ pc = "cleanup"
  /\ now = 0 /\ start_time = 0 /\ sleepLeft = 0 /\ attempt = 0
  /\ answer = <<>> /\ err = "" /\ retval = "" /\ bound = TRUE
  /\ localExists \in BOOLEAN
  /\ remoteCreated = TRUE
  /\ remoteState \in FileStates
  /\ remoteDeleted \in BOOLEAN
  /\ obsState = remoteState
  /\ rendered = FALSE /\ shownErr = ""
  /\ hist = HistInit

\* one more call of delete_file with the same path and the same uploaded file
CallDelete(lf, rf) ==
  /\ pc = "cleanup"
  /\ hist.delCalls < MaxDeleteCalls
  /\ LET d == delete_file(lf, rf, hist)
     IN /\ localExists' = d.localExists
        /\ remoteDeleted' = d.remoteDeleted
        /\ hist' = d.hist
  /\ UNCHANGED <<params, pc, now, start_time, sleepLeft, attempt, answer, err, retval,
                 bound, remoteCreated, remoteState, obsState, rendered, shownErr>>

NextCleanup == \E lf \in BOOLEAN, rf \in BOOLEAN : CallDelete(lf, rf)

SpecCleanup == InitCleanup /\ [][NextCleanup]_vars

\* ======================= properties ======================================

\* C1: in every run of the button handler delete_file is invoked exactly once,
\* whichever way the run ends (for max_retries >= 1).
C1_CleanupExactlyOnce ==
  (pc = "done" /\ max_retries >= 1) => hist.delCalls = 1

\* C2: when a run has ended and no deletion itself failed, every artifact the run
\* created is gone: no local file on disk, the remote file deleted.
C2_ArtifactsGone ==
  (pc = "done" /\ max_retries >= 1 /\ ~hist.delFailed)
    => (~localExists /\ (remoteCreated => remoteDeleted))

\* C3: for max_retries >= 1, when every generation call failed with ServiceUnavailable,
\* the loop ends after exactly max_retries requests and max_retries - 1 sleeps of
\* retry_delay each, with RuntimeError and not the raw overload signal.
C3_OverloadExhausted ==
  (max_retries >= 1 /\ hist.outcome # "none" /\ hist.overloads = hist.genRequests)
    => /\ hist.outcome = "OVERLOADED_EXHAUSTED"
       /\ err = "RuntimeError"
       /\ hist.origKind = "ServiceUnavailable"
       /\ hist.genRequests = max_retries
       /\ hist.sleeps = max_retries - 1
       /\ hist.slept = (max_retries - 1) * retry_delay

C3_Witness ==
  /\ hist.outcome = "OVERLOADED_EXHAUSTED"
  /\ max_retries = MaxRetries
  /\ hist.genRequests = MaxRetries
  /\ hist.sleeps = MaxRetries - 1

\* C4: when the first K - 1 generation calls are overloaded and the K-th succeeds
\* (1 <= K <= max_retries), recog_video returns after exactly K requests and K - 1
\* sleeps, and no request or sleep follows the success (the counts stay as they are
\* in every later state of the run).
C4_SuccessOnKth ==
  hist.outcome = "SUCCEEDED"
    => /\ hist.genRequests = hist.overloads + 1
       /\ hist.genRequests >= 1
       /\ hist.genRequests <= max_retries
       /\ attempt = hist.genRequests
       /\ hist.sleeps = hist.overloads
       /\ hist.slept = hist.overloads * retry_delay
       /\ retval = "tuple"
       /\ err = ""

C4_Witness ==
  /\ hist.outcome = "SUCCEEDED"
  /\ hist.overloads = 2
  /\ hist.genRequests = 3
  /\ pc = "done"

\* C5: a generation attempt that fails with a kind other than ServiceUnavailable, on
\* any attempt, is followed by no further request and no sleep; delete_file runs once
\* on the local file and the remote file (each is gone unless its own deletion
\* failed); the caller gets the original kind of error.
C5_OtherFailureNoRetry ==
  hist.outcome = "FAILED_OTHER"
    => /\ hist.origKind \in OtherKinds
       /\ err = hist.origKind
       /\ shownErr \in {"", hist.origKind}
       /\ hist.genRequests = hist.overloads + 1
       /\ hist.sleeps = hist.overloads
       /\ hist.delCalls = 1
       /\ hist.localDelAttempts = 1
       /\ hist.remoteDelAttempts = 1
       /\ (~hist.delFailed => (~localExists /\ remoteDeleted))
       /\ pc \in {"raised", "finally", "done"}

C5_Witness ==
  /\ hist.outcome = "FAILED_OTHER"
  /\ hist.overloads >= 1
  /\ shownErr = "DeadlineExceeded"
  /\ pc = "done"

\* C6: when the inference stage fails (overload on the last attempt, or any other
\* kind), both deletions of delete_file have been attempted by the time the error is
\* on its way to the caller of recog_video.
C6_CleanupBeforePropagation ==
  (pc = "raised" /\ hist.errStage = "inference")
    => /\ hist.localDelAttempts = 1
       /\ hist.remoteDelAttempts = 1
       /\ hist.order[Len(hist.order)] = "cleanup"

C6_Witness ==
  /\ pc = "raised"
  /\ hist.outcome = "OVERLOADED_EXHAUSTED"
  /\ localExists
  /\ hist.remoteDelAttempts = 1

\* C7: every generation request, first attempt or retry, is issued while the remote
\* file exists, is not deleted and is ACTIVE (at the backend and in the file object).
C7_RequestsOnlyWhenActive ==
  /\ \A r \in hist.reqStates :
        r.created /\ ~r.deleted /\ r.state = STATE_ACTIVE /\ r.obs = STATE_ACTIVE
  /\ pc \in {"loop", "stream", "retry_sleep"}
        => (remoteCreated /\ ~remoteDeleted /\ remoteState = STATE_ACTIVE)

C7_Witness ==
  /\ hist.genRequests >= 2
  /\ hist.polls >= 1
  /\ pc = "stream"

\* C8: wait_for_file_active returns only a file whose state is ACTIVE; a file that
\* became ACTIVE no later than timeout after the wait began is returned, never timed
\* out; the TimeoutError comes at an elapsed time in (timeout, timeout + interval];
\* consecutive polls are exactly interval apart.
C8_WaitContract ==
  /\ hist.waitOutcome = "returned"
        => (obsState = STATE_ACTIVE /\ remoteState = STATE_ACTIVE /\ hist.activeAt >= 0)
  /\ hist.waitOutcome = "timeout"
        => /\ err = "TimeoutError"
           /\ hist.waitElapsed > timeout
           /\ hist.waitElapsed <= timeout + interval
           /\ (hist.activeAt = -1 \/ hist.activeAt - start_time > timeout)
           /\ hist.polls >= 1
  /\ hist.pollGaps \subseteq {interval}

C8_Witness ==
  /\ hist.waitOutcome = "timeout"
  /\ hist.waitElapsed = timeout + interval
  /\ hist.polls >= 2
  /\ hist.activeAt = -1

\* C9: wait_for_file_active never returns successfully for a file that first became
\* ACTIVE after the timeout had already elapsed.
C9_NoLateSuccess ==
  hist.waitOutcome = "returned" => hist.activeAt - start_time <= timeout

\* C10: a remote file in state FAILED is polled like a pending one: the wait goes on
\* at the fixed interval, ends only with TimeoutError once the timeout has elapsed,
\* and no generation request is made for the file.
C10_FailedPolledUntilTimeout ==
  (remoteCreated /\ remoteState = 10)
    => /\ hist.genRequests = 0
       /\ \/ (hist.waitOutcome = "none" /\ pc \in {"wait", "poll_sleep"})
          \/ (hist.waitOutcome = "timeout" /\ err = "TimeoutError"
              /\ hist.waitElapsed > timeout)
       /\ hist.pollGaps \subseteq {interval}
       /\ hist.polls * interval = hist.lastPoll - start_time

C10_Witness ==
  /\ remoteCreated /\ remoteState = 10
  /\ obsState = 10
  /\ hist.waitOutcome = "timeout"
  /\ hist.failedAt < start_time + timeout
  /\ hist.polls >= 2

\* C11: delete_file never raises and its two deletions are independent: whichever of
\* os.remove and uploaded_file.delete() fails, every call attempts both deletions
\* (the remote one also after a failed local one) and returns normally.
C11_DeleteNeverRaises ==
  hist.delCalls >= 1
    => /\ hist.delReturned = hist.delCalls
       /\ hist.localDelAttempts = hist.delCalls
       /\ hist.remoteDelAttempts = hist.delCalls

\* both deletions failed, both were attempted, the call returned and the run went on
C11_Witness ==
  /\ hist.delCalls = 1
  /\ hist.delReturned = 1
  /\ localExists /\ ~remoteDeleted
  /\ hist.localDelAttempts = 1 /\ hist.remoteDelAttempts = 1
  /\ pc = "done"

\* C12: delete_file is idempotent: a call made when the local file is absent and the
\* remote file is deleted changes neither and returns normally; an absent local file
\* is never removed (no os.remove), and the failing deletion of an already deleted
\* remote file is attempted and swallowed.
C12_DeleteIdempotent ==
  [][ /\ ~localExists
         => (~localExists' /\ hist'.localDelAttempts = hist.localDelAttempts)
      /\ remoteDeleted
         => (remoteDeleted' /\ hist'.remoteDelAttempts = hist.remoteDelAttempts + 1
             /\ hist'.delFailed)
      /\ hist'.delReturned = hist.delReturned + 1
      /\ hist'.delCalls = hist.delCalls + 1 ]_vars

\* a second call after a call that deleted both: nothing left to remove
C12_Witness ==
  /\ pc = "cleanup"
  /\ hist.delCalls = 2 /\ hist.delReturned = 2
  /\ ~localExists /\ remoteDeleted
  /\ hist.localDelAttempts = 1
  /\ hist.remoteDelAttempts = 2

\* the strings of a sequence of fragments, joined in order with nothing between them
RECURSIVE Flatten(_)
Flatten(fs) == IF fs = <<>> THEN <<>> ELSE Head(fs) \o Flatten(Tail(fs))

\* C13: on a successful attempt the answer recog_video returns is the concatenation of
\* all fragments streamed in that attempt, in arrival order: none dropped, repeated,
\* merged or reordered, no separator.
C13_AnswerIsConcatenation ==
  (pc = "stream" \/ hist.outcome = "SUCCEEDED") => answer = Flatten(hist.arrived)

\* two different fragments, the longer one first
C13_Witness ==
  /\ hist.outcome = "SUCCEEDED"
  /\ hist.arrived = << <<"b", "c">>, <<"a">> >>
  /\ answer = <<"b", "c", "a">>
  /\ pc = "done"

\* C18: when an attempt delivered fragments and then failed with ServiceUnavailable,
\* and a later attempt succeeds, the answer holds the fragments of the successful
\* attempt only.
C18_FailedAttemptsDiscarded ==
  (hist.outcome = "SUCCEEDED" /\ hist.failedFrags)
    => /\ answer = Flatten(hist.arrived)
       /\ hist.overloads >= 1

C18_Witness ==
  /\ hist.outcome = "SUCCEEDED"
  /\ hist.failedFrags
  /\ hist.overloads = 1
  /\ hist.arrived = << <<"a">> >>
  /\ answer = <<"a">>

\* C14: for every max_retries, 0 included, a started retry loop ends as exactly one of
\* SUCCEEDED, OVERLOADED_EXHAUSTED, FAILED_OTHER, and an attempt is followed by another
\* one only after ServiceUnavailable and only while attempts remain.
C14_ThreeOutcomes ==
  hist.outcome # "none"
    => /\ hist.outcome \in {"SUCCEEDED", "OVERLOADED_EXHAUSTED", "FAILED_OTHER"}
       /\ hist.genRequests <= max_retries
       /\ hist.genRequests
            = hist.overloads + (IF hist.outcome = "OVERLOADED_EXHAUSTED" THEN 0 ELSE 1)

\* C15: a failure of the download, the upload or the activation wait ends the run at
\* once: the failed stage ran once, no later stage runs, the handler shows the error,
\* and no deletion is attempted for a file or upload that was never created.
C15_EarlyFailureAborts ==
  hist.errStage \in {"download", "upload", "wait"}
    => /\ hist.downloads = 1
       /\ hist.genRequests = 0
       /\ hist.outcome = "none"
       /\ ~rendered
       /\ hist.errStage = "download"
            => (err = "DownloadError" /\ hist.uploads = 0 /\ ~localExists
                /\ ~remoteCreated /\ hist.localDelAttempts = 0)
       /\ hist.errStage = "upload"
            => (err = "UploadError" /\ hist.uploads = 1 /\ ~remoteCreated
                /\ hist.polls = 0 /\ hist.waitOutcome = "none")
       /\ hist.errStage = "wait"
            => (err = "TimeoutError" /\ hist.uploads = 1 /\ hist.waitOutcome = "timeout")
       /\ ~remoteCreated => hist.remoteDelAttempts = 0
       /\ pc \in {"raised", "finally", "done"}
       /\ pc # "raised" => shownErr = err

C15_Witness ==
  /\ hist.errStage = "upload"
  /\ pc = "done"
  /\ shownErr = "UploadError"
  /\ hist.delCalls = 0

\* o is download, upload, wait, one or more generation requests, render, cleanup
SuccessOrder(o) ==
  /\ Len(o) >= 6
  /\ o[1] = "download" /\ o[2] = "upload" /\ o[3] = "wait"
  /\ \A i \in 4..(Len(o) - 2) : o[i] = "generate"
  /\ o[Len(o) - 1] = "render"
  /\ o[Len(o)] = "cleanup"

\* C16: on a successful run the stages come in the order download, upload, activation
\* wait, generation attempts, rendering, cleanup, each once but the attempts; the
\* local file is deleted only after st.video was given it, and cleanup is the last step.
C16_SuccessOrder ==
  hist.outcome = "SUCCEEDED"
    => /\ hist.downloads = 1 /\ hist.uploads = 1
       /\ pc \in {"returned", "render"} => (localExists /\ hist.delCalls = 0)
       /\ pc = "finally" => (rendered /\ hist.renderedFromFile /\ hist.delCalls = 0)
       /\ pc = "done" => (rendered /\ hist.renderedFromFile /\ hist.delCalls = 1
                          /\ SuccessOrder(hist.order))

C16_Witness ==
  /\ hist.outcome = "SUCCEEDED"
  /\ pc = "done"
  /\ hist.genRequests = 2
  /\ hist.order = <<"download", "upload", "wait", "generate", "generate", "render", "cleanup">>
  /\ ~localExists /\ remoteDeleted

\* C17: from the return of the download to the end of the retry loop the local file
\* is on disk and the remote file is not deleted, also between attempts and during a
\* retry sleep; there is one download and one upload, whatever the number of attempts.
C17_AssetsHeldUntilOutcome ==
  /\ hist.downloads <= 1 /\ hist.uploads <= 1
  /\ pc = "upload" => (localExists /\ hist.delCalls = 0)
  /\ pc \in {"wait", "poll_sleep", "loop", "stream", "retry_sleep"}
       => /\ localExists
          /\ remoteCreated /\ ~remoteDeleted
          /\ hist.delCalls = 0
          /\ hist.downloads = 1 /\ hist.uploads = 1

C17_Witness ==
  /\ pc = "retry_sleep"
  /\ hist.overloads = 2
  /\ localExists /\ remoteCreated /\ ~remoteDeleted

\* C19: every run ends, whatever the backend does (always pending, always FAILED,
\* always overloaded): wait_for_file_active polls at most timeout / interval + 1
\* times and recog_video issues at most max_retries generation requests.
C19_RunTerminates ==
  /\ <>(pc = "done")
  /\ [](hist.polls <= (timeout \div interval) + 1)
  /\ [](hist.genRequests <= max_retries)

\* the wait used every poll it has and the run ended
C19_Witness ==
  /\ pc = "done"
  /\ timeout = MaxTimeout /\ interval = 1
  /\ hist.waitOutcome = "timeout"
  /\ hist.polls = (timeout \div interval) + 1
  /\ remoteState = 1

====
